---- MODULE Spec2Model ----
(***************************************************************************)
(* Session-based verification controller of the sourcify server            *)
(* (src/src/server/controllers/VerificationController.ts).                 *)
(*                                                                         *)
(* One session (File Store + Contract Wrapper Registry), the Result Store  *)
(* behind repositoryService.storeMatch, and one action per HTTP handler.   *)
(* The helpers the controller imports from VerificationController-util,    *)
(* lib-sourcify and the repository service (saveFiles,                     *)
(* checkContractsInSession, isVerifiable, verifyContractsInSession,        *)
(* verifyCreate2, storeMatch, getSessionJSON) follow spec.md sections 3-6. *)
(* The variables lastSuccess and last are history variables: they record   *)
(* what a request did and are read by the properties only.                 *)
(*                                                                         *)
(* Spec runs each handler as one step.  BatchSpec follows one batch of the *)
(* orchestrator call by call (run is the position of the request) and      *)
(* states the fairness under which a batch completes.  SaveFilesSpec       *)
(* applies saveFiles to the stores and requests of the bounded universe.   *)
(***************************************************************************)
EXTENDS Integers, Sequences, FiniteSets, TLC

(* ---------------------------------------------------------------- bounds *)
\* number of handler invocations explored in one behaviour
MaxOps == 3
\* longest list of files / received contracts carried by one request
MaxItems == 2

(* -------------------------------------------------------------- universe *)
None == "none"

\* metadata descriptors known to the grouper; the verificationId of a wrapper
\* is derived from its descriptor
Ids == {1, 2}
\* the verificationIds a request can name: the last is never in the registry
RequestIds == {1, 2, 3}

Paths == {"metadata.json", "meta2.json", "a.sol", "b.sol"}

Meta(k) == IF k = 1 THEN "meta1" ELSE "meta2"

\* ordered source paths listed by descriptor k
Required(k) == IF k = 1 THEN <<"a.sol">> ELSE <<"a.sol", "b.sol">>

\* path/content pairs a client can send; content "ok" is the source whose hash
\* the descriptors list, "bad" a source with another hash
PathContents ==
  { [path |-> "metadata.json", content |-> "meta1"],
    [path |-> "metadata.json", content |-> "meta2"],
    [path |-> "meta2.json",    content |-> "meta2"],
    [path |-> "a.sol",         content |-> "ok"],
    [path |-> "a.sol",         content |-> "bad"],
    [path |-> "b.sol",         content |-> "ok"] }

SeqsUpTo(S, n) == UNION { [1..m -> S] : m \in 1..n }

UserAddress == "0xA"
UserChain == "1"
TxHash == "0xT"

Success == {"valid_runtime", "valid_creation"}
Terminal == Success \cup {"false", "error"}

VARIABLES
  inputFiles,        \* session.inputFiles : path -> content (None when absent)
  contractWrappers,  \* session.contractWrappers : verificationId -> wrapper
  repository,        \* Result Store: set of stored artifacts
  lastSuccess,       \* history: per coordinate, the last match found and stored
  last,              \* history: what the last handler invocation did
  nOps,              \* number of handler invocations so far
  run                \* position of the request that is being served

vars == <<inputFiles, contractWrappers, repository, lastSuccess, last, nOps, run>>

(* ------------------------------------------------------------ File Store *)
RECURSIVE saveFiles_countsAll(_, _)
\* as saveFiles, but every submitted pair is counted
saveFiles_countsAll(pathContents, files) ==
  IF pathContents = <<>>
  THEN [files |-> files, newFilesCount |-> 0]
  ELSE LET pc == Head(pathContents)
           stored == [files EXCEPT ![pc.path] = pc.content]
           rest == saveFiles_countsAll(Tail(pathContents), stored)
       IN [files |-> rest.files, newFilesCount |-> rest.newFilesCount + 1]

RECURSIVE saveFiles(_, _)
\* adds each pair in order; counts the pairs whose content differs from what
\* the session stores for that path
saveFiles(pathContents, files) ==
  IF pathContents = <<>>
  THEN [files |-> files, newFilesCount |-> 0]
  ELSE LET pc == Head(pathContents)
           differs == files[pc.path] # pc.content
           stored == IF differs THEN [files EXCEPT ![pc.path] = pc.content]
                     ELSE files
           rest == saveFiles(Tail(pathContents), stored)
       IN [files |-> rest.files,
           newFilesCount |-> rest.newFilesCount + (IF differs THEN 1 ELSE 0)]

\* every submitted pair equals what the session stores for its path
Identical(pathContents, files) ==
  \A i \in 1..Len(pathContents) :
    files[pathContents[i].path] = pathContents[i].content

\* what a session can hold: per path nothing, or a content a client can send
StoredFiles ==
  { f \in [Paths -> {None, "meta1", "meta2", "ok", "bad"}] :
      \A p \in Paths :
        f[p] # None => [path |-> p, content |-> f[p]] \in PathContents }

(* --------------------------------------------------------------- Grouper *)
\* descriptors found among the files
Detected(files) == { k \in Ids : \E p \in Paths : files[p] = Meta(k) }

Missing(k, files) == SelectSeq(Required(k), LAMBDA p : files[p] = None)

Invalid(k, files) ==
  SelectSeq(Required(k), LAMBDA p : files[p] # None /\ files[p] # "ok")

NewWrapper(k, files) ==
  [ metadata |-> Meta(k),
    missing |-> Missing(k, files),
    invalid |-> Invalid(k, files),
    creationBytecode |-> 0,
    address |-> None,
    chainId |-> None,
    creatorTxHash |-> None,
    status |-> "pending",
    statusMessage |-> None,
    storageTimestamp |-> 0 ]

\* re-groups the whole File Store and reconciles the registry: a known
\* wrapper gets its missing/invalid lists refreshed in place, a new grouping
\* a new wrapper, a wrapper without grouping is kept
checkContractsInSession(files, wrappers) ==
  LET found == Detected(files)
  IN [ id \in (DOMAIN wrappers) \cup found |->
         IF id \in found
         THEN IF id \in DOMAIN wrappers
              THEN [wrappers[id] EXCEPT !.missing = Missing(id, files),
                                        !.invalid = Invalid(id, files)]
              ELSE NewWrapper(id, files)
         ELSE wrappers[id] ]

(* ---------------------------------------------------- Verifiability Selector *)
isVerifiable(w) ==
  /\ w.missing = <<>>
  /\ w.invalid = <<>>
  /\ w.address # None
  /\ w.chainId # None

(* ------------------------------------------------- Result Store Gateway *)
Chains == {"1", "0"}
Create2Addresses == <<"0xC0", "0xC1">>
Addresses == {UserAddress} \cup {Create2Addresses[i] : i \in 1..Len(Create2Addresses)}
Coords == Chains \X Addresses

Artifact(metadata, match) ==
  [ chainId |-> match.chainId, address |-> match.address,
    status |-> match.status, storageTimestamp |-> match.storageTimestamp,
    metadata |-> metadata ]

NoMatch == [status |-> None]
\* history entry of one coordinate: how many matches were found and stored for
\* it, and the last of them
NeverStored == [count |-> 0, artifact |-> NoMatch]

Recorded(entry, metadata, match) ==
  [count |-> entry.count + 1, artifact |-> Artifact(metadata, match)]

StoredAt(repo, chainId, address) ==
  { a \in repo : a.chainId = chainId /\ a.address = address }

\* upsert keyed by (chainId, address); only a successful match is an artifact
storeMatch(repo, metadata, match) ==
  IF match.status \in Success
  THEN (repo \ StoredAt(repo, match.chainId, match.address))
         \cup {Artifact(metadata, match)}
  ELSE repo

StoreCall(match) ==
  [chainId |-> match.chainId, address |-> match.address, status |-> match.status]

(* ------------------------------------------------ Verification Orchestrator *)
\* what the collaborators answer for one wrapper: the engine's verdict and
\* whether the Result Store accepts the write
EngineVerdicts == Success \cup {"false", "throw"}
Outcomes ==
  [engine : Success, stored : BOOLEAN] \cup [engine : {"false", "throw"}, stored : {TRUE}]

\* the match the engine returns; a non-match carries a falsy (None) status
EngineMatch(verdict, chainId, address, now) ==
  [ status |-> IF verdict \in Success THEN verdict ELSE None,
    message |-> IF verdict \in Success THEN None ELSE "no match",
    address |-> address,
    chainId |-> chainId,
    storageTimestamp |-> IF verdict \in Success THEN now ELSE 0 ]

\* state threaded through a batch
Thread(wrappers, repo, success) ==
  [ wrappers |-> wrappers, repository |-> repo, lastSuccess |-> success,
    engine |-> <<>>, storeCalls |-> {}, storeFailed |-> {} ]

\* ids of the batch that reach the engine
Submitted(batch, wrappers) ==
  { id \in batch \cap DOMAIN wrappers : isVerifiable(wrappers[id]) }

\* one wrapper of the batch
verifyOne(st, id, out, now) ==
  LET w == st.wrappers[id]
      match == EngineMatch(out.engine, w.chainId, w.address, now)
      called == [st EXCEPT !.engine = (id :> out.engine) @@ @]
  IN IF ~isVerifiable(w) THEN st
     ELSE IF out.engine = "throw"
     THEN [called EXCEPT !.wrappers[id].status = "error",
                         !.wrappers[id].statusMessage = "engine failure"]
     ELSE IF out.engine = "false"
     THEN [called EXCEPT !.wrappers[id].status = "false",
                         !.wrappers[id].statusMessage = match.message]
     ELSE IF out.stored
     THEN [called EXCEPT !.wrappers[id].status = match.status,
                         !.wrappers[id].statusMessage = None,
                         !.wrappers[id].storageTimestamp = match.storageTimestamp,
                         !.repository = storeMatch(@, w.metadata, match),
                         !.lastSuccess[<<w.chainId, w.address>>] =
                            Recorded(@, w.metadata, match),
                         !.storeCalls = @ \cup {StoreCall(match)}]
     ELSE [called EXCEPT !.wrappers[id].status = "error",
                         !.wrappers[id].statusMessage = "persistence failure",
                         !.storeCalls = @ \cup {StoreCall(match)},
                         !.storeFailed = @ \cup {id}]

IdOrder == <<1, 2>>

RECURSIVE verifyEach_abort(_, _, _, _, _)
\* as verifyEach, but an engine failure ends the batch
verifyEach_abort(st, order, batch, outs, now) ==
  IF order = <<>> THEN st
  ELSE LET id == Head(order)
           next == IF id \in batch /\ id \in DOMAIN st.wrappers /\ id \in DOMAIN outs
                   THEN verifyOne(st, id, outs[id], now)
                   ELSE st
       IN IF id \in DOMAIN next.engine /\ next.engine[id] = "throw"
          THEN next
          ELSE verifyEach_abort(next, Tail(order), batch, outs, now)

RECURSIVE verifyEach(_, _, _, _, _)
verifyEach(st, order, batch, outs, now) ==
  IF order = <<>> THEN st
  ELSE LET id == Head(order)
           next == IF id \in batch /\ id \in DOMAIN st.wrappers /\ id \in DOMAIN outs
                   THEN verifyOne(st, id, outs[id], now)
                   ELSE st
       IN verifyEach(next, Tail(order), batch, outs, now)

\* each wrapper of the batch on its own; a wrapper that is not verifiable is
\* left as it is
verifyContractsInSession(batch, wrappers, repo, success, outs, now) ==
  verifyEach(Thread(wrappers, repo, success), IdOrder, batch, outs, now)

(* -------------------------------------------------------------- handlers *)
\* as regroups, without the test
regroups_always(newFilesCount) == TRUE

\* if (newFilesCount) { checkContractsInSession ... }
regroups(newFilesCount) == newFilesCount # 0

Quiet ==
  [ op |-> "init", newFilesCount |-> -1, identical |-> FALSE,
    named |-> {}, batch |-> {}, engine |-> <<>>, storeCalls |-> {},
    storeFailed |-> {}, malformed |-> FALSE, recovered |-> {}, request |-> <<>>,
    resolved |-> {}, create2 |-> [claimed |-> None, computed |-> None],
    response |-> None, sends |-> 0, snapshot |-> {} ]

\* ids the session snapshot lists: every wrapper of the registry
getSessionJSON(wrappers) == DOMAIN wrappers

\* wrappers whose missing list went from non-empty to empty
Resolved(before, after) ==
  { id \in (DOMAIN before) \cap (DOMAIN after) :
      before[id].missing # <<>> /\ after[id].missing = <<>> }

\* wrappers that went from a failed attempt to a success
Recovered(before, after) ==
  { id \in (DOMAIN before) \cap (DOMAIN after) :
      before[id].status \in {"false", "error"} /\ after[id].status \in Success }

\* no request is being served
Idle ==
  [ phase |-> "idle", op |-> None, todo |-> <<>>, named |-> {}, batch |-> {},
    engine |-> <<>>, storeCalls |-> {}, storeFailed |-> {} ]

Now == nOps + 1

\* res.send(getSessionJSON(session))
Snapshot(op, wrappers) ==
  [Quiet EXCEPT !.op = op, !.response = "snapshot", !.sends = 1,
                !.snapshot = getSessionJSON(wrappers)]

Init ==
  /\ inputFiles = [p \in Paths |-> None]
  /\ contractWrappers = <<>>
  /\ repository = {}
  /\ lastSuccess = [c \in Coords |-> NeverStored]
  /\ last = Quiet
  /\ nOps = 0
  /\ run = Idle

\* the request is rejected: an error response and nothing else
Rejected(op) ==
  /\ last' = [Quiet EXCEPT !.op = op, !.response = "error"]
  /\ nOps' = nOps + 1
  /\ UNCHANGED <<inputFiles, contractWrappers, repository, lastSuccess>>

\* the request is rejected for its shape (validation, no files, unparsable
\* input, unknown verificationId): an error response and nothing else
Malformed(op) ==
  /\ last' = [Quiet EXCEPT !.op = op, !.response = "error", !.malformed = TRUE]
  /\ nOps' = nOps + 1
  /\ UNCHANGED <<inputFiles, contractWrappers, repository, lastSuccess>>

getSessionDataEndpoint ==
  /\ nOps < MaxOps
  /\ UNCHANGED run
  /\ last' = Snapshot("getSessionData", contractWrappers)
  /\ nOps' = nOps + 1
  /\ UNCHANGED <<inputFiles, contractWrappers, repository, lastSuccess>>

\* POST /session/input-files
addInputFilesEndpoint ==
  /\ nOps < MaxOps
  /\ UNCHANGED run
  /\ \E pathContents \in SeqsUpTo(PathContents, MaxItems) \cup {<<>>} :
       IF pathContents = <<>>
       THEN Malformed("addInputFiles")
       ELSE \E saved \in {saveFiles(pathContents, inputFiles)} :
            \E grouped \in {checkContractsInSession(saved.files, contractWrappers)} :
               IF regroups(saved.newFilesCount)
               THEN \E outs \in [Submitted(DOMAIN grouped, grouped) -> Outcomes] :
                      \E st \in {verifyContractsInSession(DOMAIN grouped, grouped,
                                   repository, lastSuccess, outs, Now)} :
                         /\ inputFiles' = saved.files
                         /\ contractWrappers' = st.wrappers
                         /\ repository' = st.repository
                         /\ lastSuccess' = st.lastSuccess
                         /\ last' = [Snapshot("addInputFiles", st.wrappers) EXCEPT
                                       !.newFilesCount = saved.newFilesCount,
                                       !.identical = Identical(pathContents, inputFiles),
                                       !.batch = DOMAIN grouped,
                                       !.engine = st.engine,
                                       !.storeCalls = st.storeCalls,
                                       !.storeFailed = st.storeFailed,
                                       !.recovered = Recovered(contractWrappers, st.wrappers),
                                       !.resolved = Resolved(contractWrappers, grouped)]
                         /\ nOps' = nOps + 1
               ELSE /\ last' = [Snapshot("addInputFiles", contractWrappers) EXCEPT
                                  !.newFilesCount = 0,
                                  !.identical = Identical(pathContents, inputFiles)]
                    /\ nOps' = nOps + 1
                    /\ UNCHANGED <<inputFiles, contractWrappers, repository, lastSuccess>>

\* metadata and sources a compiler input of contract k expands to
MetadataPath(k) == IF k = 1 THEN "metadata.json" ELSE "meta2.json"

SourcesOf(k) ==
  [ i \in 1..Len(Required(k)) |-> [path |-> Required(k)[i], content |-> "ok"] ]

MetadataAndSources(k) ==
  <<[path |-> MetadataPath(k), content |-> Meta(k)]>> \o SourcesOf(k)

\* as solcJsonStep, but the registry is rebuilt from the grouping alone
solcJsonStep_replace(st, file) ==
  IF file = 0 THEN [st EXCEPT !.thrown = TRUE]
  ELSE LET saved == saveFiles(MetadataAndSources(file), st.files)
       IN [ files |-> saved.files,
            wrappers |-> IF saved.newFilesCount # 0
                         THEN checkContractsInSession(saved.files, <<>>)
                         ELSE st.wrappers,
            newFilesCount |-> saved.newFilesCount,
            resolved |-> st.resolved \cup
                         (IF saved.newFilesCount # 0
                          THEN Resolved(st.wrappers,
                                        checkContractsInSession(saved.files, <<>>))
                          ELSE {}),
            sends |-> st.sends + 1,
            snapshot |-> IF st.sends = 0
                         THEN getSessionJSON(IF saved.newFilesCount # 0
                                             THEN checkContractsInSession(saved.files, <<>>)
                                             ELSE st.wrappers)
                         ELSE st.snapshot,
            thrown |-> st.sends >= 1 ]

\* one turn of the loop over the uploaded compiler inputs: parse, expand, save,
\* re-group, send. A second send on the same response throws.
solcJsonStep(st, file) ==
  IF file = 0 THEN [st EXCEPT !.thrown = TRUE]
  ELSE LET saved == saveFiles(MetadataAndSources(file), st.files)
       IN [ files |-> saved.files,
            wrappers |-> IF saved.newFilesCount # 0
                         THEN checkContractsInSession(saved.files, st.wrappers)
                         ELSE st.wrappers,
            newFilesCount |-> saved.newFilesCount,
            resolved |-> st.resolved \cup
                         (IF saved.newFilesCount # 0
                          THEN Resolved(st.wrappers,
                                        checkContractsInSession(saved.files, st.wrappers))
                          ELSE {}),
            sends |-> st.sends + 1,
            snapshot |-> IF st.sends = 0
                         THEN getSessionJSON(IF saved.newFilesCount # 0
                                             THEN checkContractsInSession(saved.files, st.wrappers)
                                             ELSE st.wrappers)
                         ELSE st.snapshot,
            thrown |-> st.sends >= 1 ]

RECURSIVE solcJsonLoop(_, _)
solcJsonLoop(st, files) ==
  IF files = <<>> \/ st.thrown THEN st
  ELSE solcJsonLoop(solcJsonStep(st, Head(files)), Tail(files))

\* an uploaded compiler input: of contract k, or 0 when JSON.parse throws
SolcJsonFiles == {0} \cup Ids

\* POST /session/input-solc-json
addInputSolcJsonEndpoint ==
  /\ nOps < MaxOps
  /\ UNCHANGED run
  /\ \E files \in SeqsUpTo(SolcJsonFiles, MaxItems) \cup {<<>>} :
       IF files = <<>>
       THEN Malformed("addInputSolcJson")
       ELSE \E st \in {solcJsonLoop([files |-> inputFiles, wrappers |-> contractWrappers,
                                     newFilesCount |-> -1, resolved |-> {},
                                     sends |-> 0, snapshot |-> {},
                                     thrown |-> FALSE], files)} :
               /\ inputFiles' = st.files
               /\ contractWrappers' = st.wrappers
               /\ last' = [Quiet EXCEPT
                             !.op = "addInputSolcJson",
                             !.newFilesCount = st.newFilesCount,
                             !.identical = /\ 0 \notin {files[i] : i \in 1..Len(files)}
                                           /\ \A i \in 1..Len(files) :
                                                Identical(MetadataAndSources(files[i]), inputFiles),
                             !.resolved = st.resolved,
                             !.malformed = 0 \in {files[i] : i \in 1..Len(files)},
                             !.response = IF st.sends >= 1 THEN "snapshot" ELSE "error",
                             !.sends = st.sends,
                             !.snapshot = st.snapshot]
               /\ nOps' = nOps + 1
               /\ UNCHANGED <<repository, lastSuccess>>

\* POST /session/clear
restartSessionEndpoint ==
  /\ nOps < MaxOps
  /\ UNCHANGED run
  /\ \E error \in BOOLEAN :
       /\ IF error
          THEN UNCHANGED <<inputFiles, contractWrappers>>
          ELSE /\ inputFiles' = [p \in Paths |-> None]
               /\ contractWrappers' = <<>>
       /\ last' = [Quiet EXCEPT !.op = "restartSession", !.response = "message",
                                !.sends = 1]
       /\ nOps' = nOps + 1
       /\ UNCHANGED <<repository, lastSuccess>>

\* what a verify-validated request can say about one contract
Targets ==
  { [address |-> None,        chainId |-> None,      creatorTxHash |-> None],
    [address |-> UserAddress, chainId |-> UserChain, creatorTxHash |-> TxHash],
    [address |-> UserAddress, chainId |-> None,      creatorTxHash |-> None],
    [address |-> None,        chainId |-> UserChain, creatorTxHash |-> None] }

ReceivedContracts ==
  { [verificationId |-> id, target |-> t] : id \in RequestIds, t \in Targets }

RECURSIVE receive_unchecked(_, _)
\* as receive, but every named wrapper is selected
receive_unchecked(acc, receivedContracts) ==
  IF receivedContracts = <<>> THEN acc
  ELSE LET rc == Head(receivedContracts)
           id == rc.verificationId
       IN IF id \in DOMAIN acc.wrappers
          THEN LET w == [acc.wrappers[id] EXCEPT
                           !.address = rc.target.address,
                           !.chainId = rc.target.chainId,
                           !.creatorTxHash = rc.target.creatorTxHash]
               IN receive_unchecked([wrappers |-> [acc.wrappers EXCEPT ![id] = w],
                                     verifiable |-> acc.verifiable \cup {id}],
                                    Tail(receivedContracts))
          ELSE receive_unchecked(acc, Tail(receivedContracts))

RECURSIVE receive_inverted(_, _)
\* as receive, but the selection test is inverted
receive_inverted(acc, receivedContracts) ==
  IF receivedContracts = <<>> THEN acc
  ELSE LET rc == Head(receivedContracts)
           id == rc.verificationId
       IN IF id \in DOMAIN acc.wrappers
          THEN LET w == [acc.wrappers[id] EXCEPT
                           !.address = rc.target.address,
                           !.chainId = rc.target.chainId,
                           !.creatorTxHash = rc.target.creatorTxHash]
               IN receive_inverted([wrappers |-> [acc.wrappers EXCEPT ![id] = w],
                                    verifiable |-> IF ~isVerifiable(w)
                                                   THEN acc.verifiable \cup {id}
                                                   ELSE acc.verifiable],
                                   Tail(receivedContracts))
          ELSE receive_inverted(acc, Tail(receivedContracts))

RECURSIVE receive_all(_, _)
\* as receive, but the target goes to every wrapper of the registry
receive_all(acc, receivedContracts) ==
  IF receivedContracts = <<>> THEN acc
  ELSE LET rc == Head(receivedContracts)
           id == rc.verificationId
       IN IF id \in DOMAIN acc.wrappers
          THEN LET ws == [ j \in DOMAIN acc.wrappers |->
                           [acc.wrappers[j] EXCEPT
                              !.address = rc.target.address,
                              !.chainId = rc.target.chainId,
                              !.creatorTxHash = rc.target.creatorTxHash] ]
               IN receive_all([wrappers |-> ws,
                               verifiable |-> acc.verifiable \cup
                                 { j \in DOMAIN ws : isVerifiable(ws[j]) }],
                              Tail(receivedContracts))
          ELSE receive_all(acc, Tail(receivedContracts))

RECURSIVE receive(_, _)
\* the loop over req.body.contracts: assign the target to the named wrapper,
\* then select it if it is verifiable
receive(acc, receivedContracts) ==
  IF receivedContracts = <<>> THEN acc
  ELSE LET rc == Head(receivedContracts)
           id == rc.verificationId
       IN IF id \in DOMAIN acc.wrappers
          THEN LET w == [acc.wrappers[id] EXCEPT
                           !.address = rc.target.address,
                           !.chainId = rc.target.chainId,
                           !.creatorTxHash = rc.target.creatorTxHash]
               IN receive([wrappers |-> [acc.wrappers EXCEPT ![id] = w],
                           verifiable |-> IF isVerifiable(w)
                                          THEN acc.verifiable \cup {id}
                                          ELSE acc.verifiable],
                          Tail(receivedContracts))
          ELSE receive(acc, Tail(receivedContracts))

\* POST /session/verify-validated
verifyContractsInSessionEndpoint ==
  /\ nOps < MaxOps
  /\ UNCHANGED run
  /\ IF DOMAIN contractWrappers = {}
     THEN Rejected("verifyValidated")
     ELSE \E receivedContracts \in SeqsUpTo(ReceivedContracts, MaxItems) \cup {<<>>} :
            \E rcv \in {receive([wrappers |-> contractWrappers, verifiable |-> {}],
                                receivedContracts)} :
               \E outs \in [Submitted(rcv.verifiable, rcv.wrappers) -> Outcomes] :
                 \E st \in {verifyContractsInSession(rcv.verifiable, rcv.wrappers,
                              repository, lastSuccess, outs, Now)} :
                    /\ contractWrappers' = st.wrappers
                    /\ repository' = st.repository
                    /\ lastSuccess' = st.lastSuccess
                    /\ last' = [Snapshot("verifyValidated", st.wrappers) EXCEPT
                                  !.named = { receivedContracts[i].verificationId :
                                                i \in 1..Len(receivedContracts) },
                                  !.batch = rcv.verifiable,
                                  !.engine = st.engine,
                                  !.storeCalls = st.storeCalls,
                                  !.storeFailed = st.storeFailed,
                                  !.recovered = Recovered(contractWrappers, st.wrappers)]
                    /\ nOps' = nOps + 1
                    /\ UNCHANGED inputFiles

\* what the chain, the gateway or the block explorer answer about an address:
\* the contract deployed there, or 0 when the lookup fails
Lookups == {0} \cup Ids

\* POST /session/input-contract
addInputContractEndpoint ==
  /\ nOps < MaxOps
  /\ UNCHANGED run
  /\ \E found \in Lookups :
       IF found = 0
       THEN Rejected("addInputContract")
       ELSE LET pathContents == <<[path |-> "metadata.json", content |-> Meta(found)]>> IN
            \E saved \in {saveFiles(pathContents, inputFiles)} :
            \E grouped \in {checkContractsInSession(saved.files, contractWrappers)} :
               IF regroups(saved.newFilesCount)
               THEN \E outs \in [Submitted(DOMAIN grouped, grouped) -> Outcomes] :
                      \E st \in {verifyContractsInSession(DOMAIN grouped, grouped,
                                   repository, lastSuccess, outs, Now)} :
                         /\ inputFiles' = saved.files
                         /\ contractWrappers' = st.wrappers
                         /\ repository' = st.repository
                         /\ lastSuccess' = st.lastSuccess
                         /\ last' = [Snapshot("addInputContract", st.wrappers) EXCEPT
                                       !.newFilesCount = saved.newFilesCount,
                                       !.identical = Identical(pathContents, inputFiles),
                                       !.batch = DOMAIN grouped,
                                       !.engine = st.engine,
                                       !.storeCalls = st.storeCalls,
                                       !.storeFailed = st.storeFailed,
                                       !.recovered = Recovered(contractWrappers, st.wrappers),
                                       !.resolved = Resolved(contractWrappers, grouped)]
                         /\ nOps' = nOps + 1
               ELSE /\ last' = [Snapshot("addInputContract", contractWrappers) EXCEPT
                                  !.newFilesCount = 0,
                                  !.identical = Identical(pathContents, inputFiles)]
                    /\ nOps' = nOps + 1
                    /\ UNCHANGED <<inputFiles, contractWrappers, repository, lastSuccess>>

\* POST /verify/etherscan (no session)
verifyFromEtherscan ==
  /\ nOps < MaxOps
  /\ UNCHANGED run
  /\ \E found \in Lookups, out \in Outcomes :
       IF found = 0 \/ out.engine = "throw"
       THEN Rejected("verifyFromEtherscan")
       ELSE LET match == EngineMatch(out.engine, UserChain, UserAddress, Now)
            IN /\ repository' = IF out.stored
                                THEN storeMatch(repository, Meta(found), match)
                                ELSE repository
               /\ lastSuccess' =
                    IF match.status \in Success /\ out.stored
                    THEN [lastSuccess EXCEPT ![<<UserChain, UserAddress>>] =
                            Recorded(@, Meta(found), match)]
                    ELSE lastSuccess
               /\ last' = [Quiet EXCEPT
                             !.op = "verifyFromEtherscan",
                             !.engine = (found :> out.engine),
                             !.storeCalls = {StoreCall(match)},
                             !.storeFailed = IF out.stored THEN {} ELSE {found},
                             !.response = IF out.stored THEN "result" ELSE "error",
                             !.sends = IF out.stored THEN 1 ELSE 0]
               /\ nOps' = nOps + 1
               /\ UNCHANGED <<inputFiles, contractWrappers>>

\* as importTarget, but only the verifiable wrappers are kept
importTarget_drop(wrappers) ==
  LET targeted == [ id \in DOMAIN wrappers |->
                      IF wrappers[id].address = None
                      THEN [wrappers[id] EXCEPT !.address = UserAddress,
                                                !.chainId = UserChain]
                      ELSE wrappers[id] ]
  IN [ id \in { i \in DOMAIN targeted : isVerifiable(targeted[i]) } |-> targeted[id] ]

\* as importTarget, but every wrapper takes the imported target
importTarget_all(wrappers) ==
  [ id \in DOMAIN wrappers |->
      [wrappers[id] EXCEPT !.address = UserAddress, !.chainId = UserChain] ]

\* the loop over the registry: a wrapper without address takes the imported
\* target; the verifiable ones are selected
importTarget(wrappers) ==
  [ id \in DOMAIN wrappers |->
      IF wrappers[id].address = None
      THEN [wrappers[id] EXCEPT !.address = UserAddress, !.chainId = UserChain]
      ELSE wrappers[id] ]

\* as nothingAdded, the test never passing
nothingAdded_never(newFilesCount) == FALSE

\* if (newFilesCount === 0) throw new BadRequestError(...)
nothingAdded(newFilesCount) == newFilesCount = 0

\* POST /session/verify/etherscan
sessionVerifyFromEtherscan ==
  /\ nOps < MaxOps
  /\ UNCHANGED run
  /\ \E found \in Lookups :
       IF found = 0
       THEN Rejected("sessionVerifyFromEtherscan")
       ELSE LET pathContents == SourcesOf(found) \o
                                <<[path |-> "metadata.json", content |-> Meta(found)]>> IN
            \E saved \in {saveFiles(pathContents, inputFiles)} :
            \E targeted \in {importTarget(checkContractsInSession(saved.files, contractWrappers))} :
            \E verifiable \in {{ id \in DOMAIN targeted : isVerifiable(targeted[id]) }} :
               IF nothingAdded(saved.newFilesCount)
               THEN /\ last' = [Quiet EXCEPT !.op = "sessionVerifyFromEtherscan",
                                  !.newFilesCount = 0,
                                  !.identical = Identical(pathContents, inputFiles),
                                  !.response = "error"]
                    /\ nOps' = nOps + 1
                    /\ UNCHANGED <<inputFiles, contractWrappers, repository, lastSuccess>>
               ELSE \E outs \in [Submitted(verifiable, targeted) -> Outcomes] :
                      \E st \in {verifyContractsInSession(verifiable, targeted,
                                   repository, lastSuccess, outs, Now)} :
                         /\ inputFiles' = saved.files
                         /\ contractWrappers' = st.wrappers
                         /\ repository' = st.repository
                         /\ lastSuccess' = st.lastSuccess
                         /\ last' = [Snapshot("sessionVerifyFromEtherscan", st.wrappers) EXCEPT
                                       !.newFilesCount = saved.newFilesCount,
                                       !.identical = Identical(pathContents, inputFiles),
                                       !.batch = verifiable,
                                       !.engine = st.engine,
                                       !.storeCalls = st.storeCalls,
                                       !.storeFailed = st.storeFailed,
                                       !.recovered = Recovered(contractWrappers, st.wrappers),
                                       !.resolved = Resolved(contractWrappers, targeted)]
                         /\ nOps' = nOps + 1

(* ---------------------------------------------------------------- CREATE2 *)
Deployers == {"0xD", "malformed"}
Salts == {1, 2}
\* abi-encoded constructor arguments; 0 stands for the empty string
CtorArgs == {0}

\* creation bytecode the compiler produces for descriptor k
Compile(k) == IF k = "meta1" THEN 1 ELSE 2

\* the CREATE2 address derived from deployer, salt and init code
create2Address(deployer, salt, creationBytecode, args) ==
  Create2Addresses[((salt + creationBytecode + args) % Len(Create2Addresses)) + 1]

\* lib verifyCreate2: recompute the address and compare it with the claim
verifyCreate2Match(metadata, deployer, salt, claimed, args, now) ==
  LET computed == create2Address(deployer, salt, Compile(metadata), args)
  IN IF claimed = computed
     THEN [ status |-> "valid_creation", message |-> None, address |-> computed,
            chainId |-> "0", storageTimestamp |-> now ]
     ELSE [ status |-> None, message |-> "address mismatch", address |-> claimed,
            chainId |-> "0", storageTimestamp |-> 0 ]

Claims == {Create2Addresses[i] : i \in 1..Len(Create2Addresses)}

\* the descriptors checkFiles finds in the files of one request
RequestFiles(pathContents) == saveFiles(pathContents, [p \in Paths |-> None]).files

\* as storesMatch, without the test
storesMatch_always(match) == TRUE

\* as storesMatch, the test never passing
storesMatch_never(match) == FALSE

\* if (match.status) await this.repositoryService.storeMatch(contract, match)
storesMatch(match) == match.status # None

Create2Note(claimed, deployer, salt, metadata, args) ==
  [claimed |-> claimed,
   computed |-> create2Address(deployer, salt, Compile(metadata), args)]

\* POST /verify/create2 (no session)
verifyCreate2 ==
  /\ nOps < MaxOps
  /\ UNCHANGED run
  /\ \E files \in SeqsUpTo(PathContents, MaxItems) \cup {<<>>} :
       \E given \in {RequestFiles(files)} :
       LET checkedContracts == Detected(given)
           errors == { k \in checkedContracts :
                         Missing(k, given) # <<>> \/ Invalid(k, given) # <<>> }
       IN IF checkedContracts = {} \/ errors # {}
          THEN Malformed("verifyCreate2")
          ELSE \E k \in checkedContracts, deployer \in Deployers, salt \in Salts,
                  claimed \in Claims, args \in CtorArgs :
                 IF deployer = "malformed"
                 THEN Malformed("verifyCreate2")
                 ELSE \E match \in {verifyCreate2Match(Meta(k), deployer, salt, claimed, args, Now)} :
                      \E stored \in (IF storesMatch(match) THEN BOOLEAN ELSE {TRUE}) :
                        LET calls == storesMatch(match)
                            thrown == calls /\ ~stored
                        IN /\ repository' = IF calls /\ stored
                                            THEN storeMatch(repository, Meta(k), match)
                                            ELSE repository
                           /\ lastSuccess' =
                                IF match.status \in Success /\ stored
                                THEN [lastSuccess EXCEPT ![<<match.chainId, match.address>>] =
                                        Recorded(@, Meta(k), match)]
                                ELSE lastSuccess
                           /\ last' = [Quiet EXCEPT
                                         !.op = "verifyCreate2",
                                         !.engine = (k :> IF match.status # None
                                                          THEN match.status ELSE "false"),
                                         !.storeCalls = IF calls THEN {StoreCall(match)} ELSE {},
                                         !.storeFailed = IF thrown THEN {k} ELSE {},
                                         !.create2 = Create2Note(claimed, deployer, salt, Meta(k), args),
                                         !.response = IF thrown THEN "error" ELSE "result",
                                         !.sends = IF thrown THEN 0 ELSE 1]
                           /\ nOps' = nOps + 1
                           /\ UNCHANGED <<inputFiles, contractWrappers>>

\* as takeMatch, but the message of an earlier attempt is kept
takeMatch_keepsMessage(w, match) ==
  [w EXCEPT !.status = IF match.status # None THEN match.status ELSE "error",
            !.statusMessage = IF match.message # None THEN match.message ELSE @,
            !.storageTimestamp = match.storageTimestamp,
            !.address = match.address,
            !.chainId = "0"]

\* the wrapper takes over the match, whatever it says
takeMatch(w, match) ==
  [w EXCEPT !.status = IF match.status # None THEN match.status ELSE "error",
            !.statusMessage = match.message,
            !.storageTimestamp = match.storageTimestamp,
            !.address = match.address,
            !.chainId = "0"]

\* POST /session/verify/create2
sessionVerifyCreate2 ==
  /\ nOps < MaxOps
  /\ UNCHANGED run
  /\ \E verificationId \in RequestIds :
       IF verificationId \notin DOMAIN contractWrappers
       THEN Malformed("sessionVerifyCreate2")
       ELSE \E deployer \in Deployers, salt \in Salts, claimed \in Claims, args \in CtorArgs :
         IF deployer = "malformed"
         THEN Malformed("sessionVerifyCreate2")
         ELSE LET w == contractWrappers[verificationId] IN
              \E match \in {verifyCreate2Match(w.metadata, deployer, salt, claimed, args, Now)} :
              \E stored \in (IF storesMatch(match) THEN BOOLEAN ELSE {TRUE}) :
                LET calls == storesMatch(match)
                    thrown == calls /\ ~stored
                IN /\ contractWrappers' =
                        [contractWrappers EXCEPT ![verificationId] = takeMatch(w, match)]
                   /\ repository' = IF calls /\ stored
                                    THEN storeMatch(repository, w.metadata, match)
                                    ELSE repository
                   /\ lastSuccess' =
                        IF match.status \in Success /\ stored
                        THEN [lastSuccess EXCEPT ![<<match.chainId, match.address>>] =
                                Recorded(@, w.metadata, match)]
                        ELSE lastSuccess
                   /\ last' = [Quiet EXCEPT
                                 !.op = "sessionVerifyCreate2",
                                 !.named = {verificationId},
                                 !.engine = (verificationId :> IF match.status # None
                                                               THEN match.status ELSE "false"),
                                 !.storeCalls = IF calls THEN {StoreCall(match)} ELSE {},
                                 !.storeFailed = IF thrown THEN {verificationId} ELSE {},
                                 !.recovered = Recovered(contractWrappers, contractWrappers'),
                                 !.create2 = Create2Note(claimed, deployer, salt, w.metadata, args),
                                 !.response = IF thrown THEN "error" ELSE "snapshot",
                                 !.sends = IF thrown THEN 0 ELSE 1,
                                 !.snapshot = IF thrown THEN {}
                                              ELSE getSessionJSON(contractWrappers)]
                   /\ nOps' = nOps + 1
                   /\ UNCHANGED inputFiles

\* as recompiled, but the wrapper goes back to pending
recompiled_pending(w) ==
  [w EXCEPT !.creationBytecode = Compile(w.metadata), !.status = "pending"]

\* contractWrapper.contract.creationBytecode = compilationResult.creationBytecode
recompiled(w) == [w EXCEPT !.creationBytecode = Compile(w.metadata)]

\* POST /session/verify/create2/compile
sessionPrecompileContract ==
  /\ nOps < MaxOps
  /\ UNCHANGED run
  /\ \E verificationId \in RequestIds :
       IF verificationId \notin DOMAIN contractWrappers
       THEN Malformed("sessionPrecompileContract")
       ELSE \E compiles \in BOOLEAN :
         IF ~compiles
         THEN Rejected("sessionPrecompileContract")
         ELSE /\ contractWrappers' =
                   [contractWrappers EXCEPT ![verificationId] = recompiled(@)]
              /\ last' = [Snapshot("sessionPrecompileContract", contractWrappers') EXCEPT
                            !.named = {verificationId}]
              /\ nOps' = nOps + 1
              /\ UNCHANGED <<inputFiles, repository, lastSuccess>>

Next ==
  \/ getSessionDataEndpoint
  \/ addInputFilesEndpoint
  \/ addInputSolcJsonEndpoint
  \/ restartSessionEndpoint
  \/ verifyContractsInSessionEndpoint
  \/ addInputContractEndpoint
  \/ verifyFromEtherscan
  \/ sessionVerifyFromEtherscan
  \/ verifyCreate2
  \/ sessionVerifyCreate2
  \/ sessionPrecompileContract

Spec == Init /\ [][Next]_vars

(* --------------------------------------- a batch, one external call at a time *)
\* a session whose files were uploaded and grouped and whose wrappers have no
\* target yet
BatchInit ==
  /\ inputFiles \in StoredFiles
  /\ contractWrappers = checkContractsInSession(inputFiles, <<>>)
  /\ repository = {}
  /\ lastSuccess = [c \in Coords |-> NeverStored]
  /\ last = Quiet
  /\ nOps = 0
  /\ run = Idle

\* the wrappers of a batch in the order they are taken
InOrder(batch) == SelectSeq(IdOrder, LAMBDA id : id \in batch)

\* POST /session/verify-validated up to the call of verifyContractsInSession
startVerifyValidated ==
  /\ nOps < MaxOps
  /\ run.phase \in {"idle", "done"}
  /\ DOMAIN contractWrappers # {}
  /\ \E receivedContracts \in SeqsUpTo(ReceivedContracts, MaxItems) :
       \E rcv \in {receive([wrappers |-> contractWrappers, verifiable |-> {}],
                           receivedContracts)} :
         /\ contractWrappers' = rcv.wrappers
         /\ run' = [Idle EXCEPT !.phase = "verifying",
                                !.op = "verifyValidated",
                                !.named = { receivedContracts[i].verificationId :
                                              i \in 1..Len(receivedContracts) },
                                !.batch = rcv.verifiable,
                                !.todo = InOrder(rcv.verifiable)]
  /\ UNCHANGED <<inputFiles, repository, lastSuccess, last, nOps>>

\* POST /session/input-contract up to the call of verifyContractsInSession
startAddInputContract ==
  /\ nOps < MaxOps
  /\ run.phase \in {"idle", "done"}
  /\ \E found \in Ids :
       \E saved \in {saveFiles(<<[path |-> "metadata.json", content |-> Meta(found)]>>,
                               inputFiles)} :
         /\ regroups(saved.newFilesCount)
         /\ inputFiles' = saved.files
         /\ contractWrappers' = checkContractsInSession(saved.files, contractWrappers)
         /\ run' = [Idle EXCEPT !.phase = "verifying",
                                !.op = "addInputContract",
                                !.batch = DOMAIN contractWrappers',
                                !.todo = InOrder(DOMAIN contractWrappers')]
  /\ UNCHANGED <<repository, lastSuccess, last, nOps>>

\* the orchestrator takes the next wrapper: one that is not verifiable is left
\* as it is, for a verifiable one the external call is issued
callEngine ==
  /\ run.phase = "verifying"
  /\ run.todo # <<>>
  /\ IF isVerifiable(contractWrappers[Head(run.todo)])
     THEN run' = [run EXCEPT !.phase = "awaiting"]
     ELSE run' = [run EXCEPT !.todo = Tail(@)]
  /\ UNCHANGED <<inputFiles, contractWrappers, repository, lastSuccess, last, nOps>>

\* the external call returns, fails or times out, and the wrapper is settled
engineReturns ==
  /\ run.phase = "awaiting"
  /\ \E out \in Outcomes :
       LET id == Head(run.todo)
           st == verifyOne([Thread(contractWrappers, repository, lastSuccess) EXCEPT
                              !.engine = run.engine,
                              !.storeCalls = run.storeCalls,
                              !.storeFailed = run.storeFailed],
                           id, out, Now)
       IN /\ contractWrappers' = st.wrappers
          /\ repository' = st.repository
          /\ lastSuccess' = st.lastSuccess
          /\ run' = [run EXCEPT !.phase = "verifying",
                                !.todo = Tail(@),
                                !.engine = st.engine,
                                !.storeCalls = st.storeCalls,
                                !.storeFailed = st.storeFailed]
  /\ UNCHANGED <<inputFiles, last, nOps>>

\* as batchDone, without waiting for the batch
batchDone_early(todo) == TRUE

\* await verifyContractsInSession(...): the handler goes on when the batch is
\* through
batchDone(todo) == todo = <<>>

\* res.send(getSessionJSON(session))
respond ==
  /\ run.phase = "verifying"
  /\ batchDone(run.todo)
  /\ last' = [Snapshot(run.op, contractWrappers) EXCEPT
                !.named = run.named,
                !.batch = run.batch,
                !.engine = run.engine,
                !.storeCalls = run.storeCalls,
                !.storeFailed = run.storeFailed]
  /\ nOps' = nOps + 1
  /\ run' = [run EXCEPT !.phase = "done"]
  /\ UNCHANGED <<inputFiles, contractWrappers, repository, lastSuccess>>

BatchNext ==
  \/ startVerifyValidated
  \/ startAddInputContract
  \/ callEngine
  \/ engineReturns
  \/ respond

\* the handler's own steps are taken, and every external call ends
BatchSpec ==
  /\ BatchInit
  /\ [][BatchNext]_vars
  /\ WF_vars(callEngine)
  /\ WF_vars(engineReturns)
  /\ WF_vars(respond)

(* ------------------------------------------------- saveFiles on its own *)
SaveFilesInit ==
  /\ inputFiles \in StoredFiles
  /\ contractWrappers = <<>>
  /\ repository = {}
  /\ lastSuccess = [c \in Coords |-> NeverStored]
  /\ last = Quiet
  /\ nOps = 0
  /\ run = Idle

\* const newFilesCount = saveFiles(pathContents, session)
callSaveFiles ==
  /\ nOps < MaxOps
  /\ UNCHANGED run
  /\ \E pathContents \in SeqsUpTo(PathContents, MaxItems) :
       \E saved \in {saveFiles(pathContents, inputFiles)} :
         /\ inputFiles' = saved.files
         /\ last' = [Quiet EXCEPT !.op = "saveFiles",
                                  !.request = pathContents,
                                  !.newFilesCount = saved.newFilesCount,
                                  !.identical = Identical(pathContents, inputFiles)]
         /\ nOps' = nOps + 1
         /\ UNCHANGED <<contractWrappers, repository, lastSuccess>>

SaveFilesNext == callSaveFiles

SaveFilesSpec == SaveFilesInit /\ [][SaveFilesNext]_vars

(* ================================================================ claims *)
RegroupOps ==
  {"addInputFiles", "addInputContract", "addInputSolcJson", "sessionVerifyFromEtherscan"}

OrchestratorOps ==
  {"addInputFiles", "addInputContract", "verifyValidated", "sessionVerifyFromEtherscan"}

\* w2 differs from w in its missing/invalid lists at most
OnlyListsChanged(w, w2) ==
  [w2 EXCEPT !.missing = w.missing, !.invalid = w.invalid] = w

\* C1: merge, not replace. A request that re-groups the File Store keeps every
\* wrapper under its verificationId with the address and chainId it had; when
\* the request only re-groups (compiler-input upload) nothing but the
\* missing/invalid lists of a wrapper changes.
C1_MergeNotReplace ==
  [][ last'.op \in RegroupOps =>
        \A id \in DOMAIN contractWrappers :
          /\ id \in DOMAIN contractWrappers'
          /\ contractWrappers[id].address # None =>
               /\ contractWrappers'[id].address = contractWrappers[id].address
               /\ contractWrappers'[id].chainId = contractWrappers[id].chainId
          /\ last'.op = "addInputSolcJson" =>
               OnlyListsChanged(contractWrappers[id], contractWrappers'[id]) ]_vars

\* an upload completed the sources of a wrapper that already had its address
C1_Witness ==
  /\ last.op \in {"addInputFiles", "addInputSolcJson"}
  /\ \E id \in last.resolved :
       /\ contractWrappers[id].address = UserAddress
       /\ contractWrappers[id].missing = <<>>

VerifiableIds == { id \in DOMAIN contractWrappers : isVerifiable(contractWrappers[id]) }

\* C2 as stated: the selector is the four-part predicate, and the batch of
\* verify-validated and of the session block-explorer import is exactly the
\* set of wrappers that satisfy it.
C2_BatchIsExactlyVerifiable ==
  /\ \A id \in DOMAIN contractWrappers :
       isVerifiable(contractWrappers[id]) <=>
         /\ Len(contractWrappers[id].missing) = 0
         /\ Len(contractWrappers[id].invalid) = 0
         /\ contractWrappers[id].address \in Addresses
         /\ contractWrappers[id].chainId \in Chains
  /\ (last.op \in {"verifyValidated", "sessionVerifyFromEtherscan"}
        /\ last.response = "snapshot")
       => last.batch = VerifiableIds

\* C2 amended: the session block-explorer import hands over exactly the
\* verifiable wrappers; verify-validated hands over wrappers named in the
\* request only, all of them with complete sources, and among them every named
\* wrapper that is verifiable.
C2_BatchOfNamedVerifiable ==
  /\ \A id \in DOMAIN contractWrappers :
       isVerifiable(contractWrappers[id]) <=>
         /\ Len(contractWrappers[id].missing) = 0
         /\ Len(contractWrappers[id].invalid) = 0
         /\ contractWrappers[id].address \in Addresses
         /\ contractWrappers[id].chainId \in Chains
  /\ (last.op = "sessionVerifyFromEtherscan" /\ last.response = "snapshot")
       => last.batch = VerifiableIds
  /\ last.op = "verifyValidated" =>
       /\ last.batch \subseteq last.named \cap DOMAIN contractWrappers
       /\ VerifiableIds \cap last.named \subseteq last.batch
       /\ \A id \in last.batch :
            /\ contractWrappers[id].missing = <<>>
            /\ contractWrappers[id].invalid = <<>>

\* verify-validated verified one wrapper and left another verifiable one out
C2_Witness ==
  /\ last.op = "verifyValidated"
  /\ last.batch # {}
  /\ VerifiableIds \ last.batch # {}

\* C3: a request whose files all equal what the session stores gets
\* newFilesCount 0 and runs neither the grouping nor a verification: wrappers,
\* File Store and Result Store stay as they are, the engine and storeMatch are
\* not called.
C3_IdenticalResubmission ==
  [][ (last'.op \in RegroupOps /\ last'.identical) =>
        /\ last'.newFilesCount = 0
        /\ contractWrappers' = contractWrappers
        /\ inputFiles' = inputFiles
        /\ repository' = repository
        /\ last'.engine = <<>>
        /\ last'.storeCalls = {} ]_vars

\* identical files were resubmitted to a session holding a settled wrapper
C3_Witness ==
  /\ last.op \in {"addInputFiles", "addInputContract"}
  /\ last.identical
  /\ \E id \in DOMAIN contractWrappers : contractWrappers[id].status \in Terminal

\* C4: the Result Store never holds two artifacts for one (chainId, address),
\* and a coordinate for which matches were found and stored holds exactly the
\* last of them.
C4_OneArtifactPerCoordinate ==
  \A c \in Coords :
    /\ Cardinality(StoredAt(repository, c[1], c[2])) <= 1
    /\ lastSuccess[c].count > 0 =>
         StoredAt(repository, c[1], c[2]) = {lastSuccess[c].artifact}
    /\ lastSuccess[c].count = 0 => StoredAt(repository, c[1], c[2]) = {}

\* one coordinate was matched and stored more than once
C4_Witness ==
  \E c \in Coords :
    /\ lastSuccess[c].count >= 2
    /\ Cardinality(StoredAt(repository, c[1], c[2])) = 1

\* C5: every verifiable wrapper of a batch gets its own verdict: one whose
\* engine call fails ends in error with the failure's message, and the others
\* end as their own verdicts say.
C5_FailureIsolated ==
  last.op \in OrchestratorOps =>
    /\ DOMAIN last.engine = last.batch \cap VerifiableIds
    /\ \A id \in DOMAIN last.engine :
         LET w == contractWrappers[id]
         IN CASE last.engine[id] = "throw" ->
                   w.status = "error" /\ w.statusMessage = "engine failure"
              [] last.engine[id] = "false" ->
                   w.status = "false" /\ w.statusMessage = "no match"
              [] OTHER ->
                   \/ w.status = last.engine[id] /\ w.statusMessage = None
                   \/ w.status = "error" /\ w.statusMessage = "persistence failure"

\* in a batch of two the engine failed for one wrapper and matched the other
C5_Witness ==
  /\ last.op \in OrchestratorOps
  /\ \E k, j \in DOMAIN last.engine :
       /\ k # j
       /\ last.engine[k] = "throw"
       /\ contractWrappers[k].status = "error"
       /\ last.engine[j] \in Success
       /\ contractWrappers[j].status \in Success

Create2Ops == {"verifyCreate2", "sessionVerifyCreate2"}

\* C6: a well-formed CREATE2 request ends in a match when the claimed address
\* is the recomputed one and in a mismatch without storeMatch otherwise.
C6_Create2Outcome ==
  (last.op \in Create2Ops /\ last.create2.claimed # None) =>
    LET verdicts == { last.engine[id] : id \in DOMAIN last.engine }
    IN /\ last.create2.claimed = last.create2.computed =>
            /\ verdicts = {"valid_creation"}
            /\ last.op = "sessionVerifyCreate2" =>
                 \A id \in last.named : contractWrappers[id].status = "valid_creation"
       /\ last.create2.claimed # last.create2.computed =>
            /\ verdicts = {"false"}
            /\ last.storeCalls = {}
            /\ last.op = "sessionVerifyCreate2" =>
                 \A id \in last.named : contractWrappers[id].status \notin Success

\* a session CREATE2 request claimed another address than the recomputed one
C6_Witness ==
  /\ last.op = "sessionVerifyCreate2"
  /\ last.create2.claimed # None
  /\ last.create2.claimed # last.create2.computed
  /\ last.response = "snapshot"

\* C7: in the direct/session and the block-explorer import pathways storeMatch
\* is called with a successful match only.
C7_StoreOnlyOnMatch ==
  last.op \in OrchestratorOps \cup {"verifyFromEtherscan"} =>
    \A call \in last.storeCalls : call.status \in Success

NoFiles == [p \in Paths |-> None]

C9_NotVerifiableStaysPending ==
  [][ /\ last'.op \in {"verifyValidated", "sessionVerifyFromEtherscan"} =>
           \A id \in DOMAIN last'.engine : isVerifiable(contractWrappers'[id])
      /\ last'.op = "sessionVerifyCreate2" =>
           \A id \in DOMAIN last'.engine : isVerifiable(contractWrappers[id])
      /\ \A id \in (DOMAIN contractWrappers) \cap (DOMAIN contractWrappers') :
           ( /\ contractWrappers[id].status = "pending"
             /\ \/ contractWrappers'[id].missing # <<>>
                \/ contractWrappers'[id].invalid # <<>> )
             => contractWrappers'[id].status = "pending" ]_vars

\* C10: but for a session restart, every wrapper of the registry is still
\* there after a request, and a snapshot sent back lists all of them.
C10_RegistryKeepsWrappers ==
  [][ last'.op # "restartSession" =>
        /\ DOMAIN contractWrappers \subseteq DOMAIN contractWrappers'
        /\ last'.response = "snapshot" =>
             DOMAIN contractWrappers \subseteq last'.snapshot ]_vars

\* a verification left one wrapper in error and another not verifiable, and
\* the snapshot lists both
C10_Witness ==
  /\ last.op \in OrchestratorOps
  /\ last.response = "snapshot"
  /\ \E k, j \in last.snapshot :
       /\ contractWrappers[k].status = "error"
       /\ ~isVerifiable(contractWrappers[j])
       /\ contractWrappers[j].status = "pending"

\* C11: once the status of a wrapper is valid_runtime or valid_creation, no
\* later request changes its address or its chainId.
C11_TargetImmutableAfterSuccess ==
  [][ \A id \in (DOMAIN contractWrappers) \cap (DOMAIN contractWrappers') :
        contractWrappers[id].status \in Success =>
          /\ contractWrappers'[id].address = contractWrappers[id].address
          /\ contractWrappers'[id].chainId = contractWrappers[id].chainId ]_vars

\* the Result Store holds, at the coordinates of wrapper w, an artifact stored
\* at the time w records
PersistedFor(repo, w) ==
  \E a \in StoredAt(repo, w.chainId, w.address) :
    a.storageTimestamp = w.storageTimestamp

\* C12: the storageTimestamp of a wrapper is unset until a match of the wrapper
\* is persisted, is set by the request that persists it, and is never changed
\* or cleared afterwards.
C12_TimestampSetOnce ==
  [][ \A id \in (DOMAIN contractWrappers) \cap (DOMAIN contractWrappers') :
        /\ contractWrappers[id].storageTimestamp # 0 =>
             contractWrappers'[id].storageTimestamp = contractWrappers[id].storageTimestamp
        /\ ( /\ contractWrappers[id].storageTimestamp = 0
             /\ contractWrappers'[id].storageTimestamp # 0 ) =>
             /\ contractWrappers'[id].storageTimestamp = Now
             /\ PersistedFor(repository', contractWrappers'[id]) ]_vars

SessionVerifyOps == OrchestratorOps \cup {"sessionVerifyCreate2"}

\* C13: a wrapper whose match was found but whose storeMatch call failed does
\* not claim success: its status is error, not valid_runtime or valid_creation.
C13_StoreFailureReflected ==
  last.op \in SessionVerifyOps =>
    \A id \in last.storeFailed \cap DOMAIN contractWrappers :
      /\ contractWrappers[id].status \notin Success
      /\ contractWrappers[id].status = "error"

\* C14: a session block-explorer import whose files add nothing to the File
\* Store (newFilesCount = 0) is answered with an error; it runs no grouping,
\* no match attempt and no storeMatch, and changes no wrapper.
C14_ImportWithoutNewFiles ==
  [][ (last'.op = "sessionVerifyFromEtherscan" /\ last'.newFilesCount = 0) =>
        /\ last'.response = "error"
        /\ last'.sends = 0
        /\ contractWrappers' = contractWrappers
        /\ inputFiles' = inputFiles
        /\ repository' = repository
        /\ last'.batch = {}
        /\ last'.engine = <<>>
        /\ last'.storeCalls = {}
        /\ last'.resolved = {} ]_vars

\* the import brought nothing new to a session that holds a complete wrapper
\* without address
C14_Witness ==
  /\ last.op = "sessionVerifyFromEtherscan"
  /\ last.newFilesCount = 0
  /\ last.identical
  /\ \E id \in DOMAIN contractWrappers :
       /\ contractWrappers[id].address = None
       /\ contractWrappers[id].missing = <<>>
       /\ contractWrappers[id].invalid = <<>>

\* w2 differs from w in its creationBytecode at most
OnlyBytecodeChanged(w, w2) ==
  [w2 EXCEPT !.creationBytecode = w.creationBytecode] = w

\* C15: the session precompile step changes the creationBytecode of the named
\* wrapper and nothing else: its status, statusMessage, address, chainId and
\* storageTimestamp, the other wrappers, the File Store and the Result Store
\* stay as they are, and neither the engine nor storeMatch is called.
C15_PrecompileFrame ==
  [][ last'.op = "sessionPrecompileContract" =>
        /\ DOMAIN contractWrappers' = DOMAIN contractWrappers
        /\ \A id \in DOMAIN contractWrappers :
             /\ OnlyBytecodeChanged(contractWrappers[id], contractWrappers'[id])
             /\ id \notin last'.named => contractWrappers'[id] = contractWrappers[id]
        /\ last'.response = "snapshot" =>
             \A id \in last'.named :
               contractWrappers'[id].creationBytecode =
                 Compile(contractWrappers[id].metadata)
        /\ inputFiles' = inputFiles
        /\ repository' = repository
        /\ last'.engine = <<>>
        /\ last'.storeCalls = {} ]_vars

\* a settled wrapper was recompiled next to another wrapper
C15_Witness ==
  /\ last.op = "sessionPrecompileContract"
  /\ last.response = "snapshot"
  /\ \E id \in last.named, other \in DOMAIN contractWrappers :
       /\ other # id
       /\ contractWrappers[id].status \in Terminal
       /\ contractWrappers[id].creationBytecode # 0
       /\ contractWrappers[other].creationBytecode = 0

\* C16: a wrapper has a statusMessage only while its status is false or error;
\* a pending, valid_runtime or valid_creation wrapper has none.
C16_MessageOnlyOnFailure ==
  \A id \in DOMAIN contractWrappers :
    /\ contractWrappers[id].statusMessage # None =>
         contractWrappers[id].status \in {"false", "error"}
    /\ contractWrappers[id].status \in Success \cup {"pending"} =>
         contractWrappers[id].statusMessage = None

\* a wrapper that had failed an attempt was then matched by a CREATE2 request
C16_Witness ==
  /\ last.op = "sessionVerifyCreate2"
  /\ \E id \in last.recovered :
       /\ contractWrappers[id].status = "valid_creation"
       /\ contractWrappers[id].statusMessage = None

\* C17: a request rejected for its shape (validation failure, no files,
\* unparsable compiler input, unknown verificationId) leaves the File Store,
\* every wrapper and the Result Store as they were, and reaches neither the
\* orchestrator nor the engine.
C17_ShapeErrorLeavesSession ==
  [][ last'.malformed =>
        /\ inputFiles' = inputFiles
        /\ contractWrappers' = contractWrappers
        /\ repository' = repository
        /\ last'.batch = {}
        /\ last'.engine = <<>>
        /\ last'.storeCalls = {} ]_vars

Latest(S) == CHOOSE i \in S : \A j \in S : j <= i

\* what the store holds for path p when the i-th pair of request req is added
\* to the files stored before the call
StoredWhenAdded(files, req, i, p) ==
  LET earlier == { j \in 1..(i - 1) : req[j].path = p }
  IN IF earlier = {} THEN files[p] ELSE req[Latest(earlier)].content

\* the store after a call is the store before it with every submitted path
\* holding the content submitted last, and no stored path is removed
SaveFilesStore(before, req, after) ==
  /\ \A p \in Paths : after[p] = StoredWhenAdded(before, req, Len(req) + 1, p)
  /\ \A p \in Paths : before[p] # None => after[p] # None
  /\ (\A i \in 1..Len(req) : before[req[i].path] = req[i].content) => after = before

BatchSettled ==
  /\ last.response = "snapshot"
  /\ last.op = run.op
  /\ last.snapshot = DOMAIN contractWrappers
  /\ \A id \in run.batch :
       isVerifiable(contractWrappers[id]) =>
         /\ contractWrappers[id].status \in Terminal
         /\ contractWrappers[id].status # "pending"

\* C19: when every external call ends, a batch handed to
\* verifyContractsInSession is worked off and the request gets its session
\* snapshot; every verifiable wrapper of the batch then has a terminal status.
C19_BatchCompletes ==
  /\ [](run.phase = "done" => BatchSettled)
  /\ (run.phase \in {"verifying", "awaiting"}) ~> (run.phase = "done" /\ BatchSettled)

\* a batch of two was worked off although the call for one wrapper failed
C19_Witness ==
  /\ run.phase = "done"
  /\ Cardinality(run.batch) = 2
  /\ \E k, j \in DOMAIN run.engine :
       /\ run.engine[k] = "throw"
       /\ contractWrappers[k].status = "error"
       /\ run.engine[j] \in Success
       /\ contractWrappers[j].status \in Success

\* C20: the session block-explorer import gives the imported address and
\* chainId to the wrappers that have no address and to no other; a wrapper
\* that had an address keeps its address and chainId, and it is in the batch
\* exactly when it is verifiable with them.
C20_ImportKeepsSetTarget ==
  [][ (last'.op = "sessionVerifyFromEtherscan" /\ last'.response = "snapshot") =>
        /\ \A id \in DOMAIN contractWrappers :
             IF contractWrappers[id].address # None
             THEN /\ contractWrappers'[id].address = contractWrappers[id].address
                  /\ contractWrappers'[id].chainId = contractWrappers[id].chainId
                  /\ id \in last'.batch <=>
                       /\ contractWrappers'[id].missing = <<>>
                       /\ contractWrappers'[id].invalid = <<>>
                       /\ contractWrappers[id].chainId # None
             ELSE /\ contractWrappers'[id].address = UserAddress
                  /\ contractWrappers'[id].chainId = UserChain
        /\ \A id \in (DOMAIN contractWrappers') \ (DOMAIN contractWrappers) :
             /\ contractWrappers'[id].address = UserAddress
             /\ contractWrappers'[id].chainId = UserChain ]_vars

\* the import verified a wrapper under the CREATE2 target it already had, next
\* to a wrapper that took the imported target
C20_Witness ==
  /\ last.op = "sessionVerifyFromEtherscan"
  /\ last.response = "snapshot"
  /\ \E id, other \in last.batch :
       /\ contractWrappers[id].address \in Claims
       /\ contractWrappers[id].chainId = "0"
       /\ contractWrappers[other].address = UserAddress
       /\ contractWrappers[other].chainId = UserChain

\* C21: a verify-validated request touches the wrappers it names and no other:
\* a verificationId that is not in the registry creates no wrapper, and a
\* wrapper that is not named keeps its address, chainId, creatorTxHash and
\* status and is not submitted to a match attempt.
C21_OnlyNamedTouched ==
  [][ last'.op = "verifyValidated" =>
        /\ DOMAIN contractWrappers' = DOMAIN contractWrappers
        /\ last'.batch \subseteq last'.named
        /\ DOMAIN last'.engine \subseteq last'.named \cap DOMAIN contractWrappers
        /\ \A id \in (DOMAIN contractWrappers) \ last'.named :
             /\ contractWrappers'[id].address = contractWrappers[id].address
             /\ contractWrappers'[id].chainId = contractWrappers[id].chainId
             /\ contractWrappers'[id].creatorTxHash = contractWrappers[id].creatorTxHash
             /\ contractWrappers'[id].status = contractWrappers[id].status
             /\ contractWrappers'[id] = contractWrappers[id] ]_vars

\* a request named a wrapper and an unknown verificationId; the named wrapper
\* was verified, and a complete wrapper that was not named stayed without
\* target
C21_Witness ==
  /\ last.op = "verifyValidated"
  /\ last.response = "snapshot"
  /\ last.named \ DOMAIN contractWrappers # {}
  /\ \E id \in DOMAIN last.engine, other \in (DOMAIN contractWrappers) \ last.named :
       /\ contractWrappers[id].status \in Terminal
       /\ contractWrappers[other].missing = <<>>
       /\ contractWrappers[other].invalid = <<>>
       /\ contractWrappers[other].address = None
       /\ contractWrappers[other].status = "pending"

\* C22: a request that is accepted sends exactly one response, and sends it
\* when the request's changes to the session are done: a snapshot lists the
\* registry as the request leaves it, also for a compiler-input upload of
\* several files.
C22_OneResponseAfterMutations ==
  (last.op # "init" /\ ~last.malformed /\ last.response # "error") =>
    /\ last.sends = 1
    /\ last.response = "snapshot" => last.snapshot = DOMAIN contractWrappers

====
